---- MODULE Spec2Model ----
(***************************************************************************)
(* Model of the OCR line reconstruction of autoTranslator:                 *)
(*   utils.rs          InterpretedLine (new, from_str, cmp, derived eq)    *)
(*   azure_clients.rs  AzureOcrClient::make_request                        *)
(*                                                                         *)
(* A Rust String is modelled as a sequence of one-character strings, so    *)
(* that splitting, trimming and integer parsing are computed character by  *)
(* character, as the code does.                                            *)
(***************************************************************************)
EXTENDS Integers, Sequences, FiniteSets, TLC

VARIABLES input, result, status, lines_seen, notice, interpreted_lines,
          first_line_is_name, output, profile_overflow_checks, previous

\* main and capture_process_playback (main.rs); main_line is the line read.
VARIABLES pc, main_line, usage_options, extracted_text, languages, translated_text,
          output_audio, cycle_result, steps, history

main_vars == <<pc, main_line, usage_options, extracted_text, languages,
               translated_text, output_audio, cycle_result, steps, history>>

vars == <<input, result, status, lines_seen, notice, interpreted_lines,
          first_line_is_name, output, profile_overflow_checks, previous,
          main_vars>>

(***************************************************************************)
(* Bounds of the model.                                                    *)
(***************************************************************************)
MaxStrLen == 7

(***************************************************************************)
(* i32                                                                     *)
(***************************************************************************)
I32_MAX == 2147483647

I32_MIN == -I32_MAX - 1

\* Result<T, ()>: Ok(v) and Err(()).
Ok(v) == [tag |-> "Ok", val |-> v]

Err == [tag |-> "Err"]

IsOk(r) == r.tag = "Ok"

DigitChars == <<"0", "1", "2", "3", "4", "5", "6", "7", "8", "9">>

IsDigit(c) == \E i \in 1..10 : DigitChars[i] = c

\* char::to_digit(10)
ToDigit(c) == (CHOOSE i \in 1..10 : DigitChars[i] = c) - 1

\* The digit loop of i32::from_str: result = result.checked_mul(10)?, then
\* checked_add(digit)? for a positive number and checked_sub(digit)? for a
\* negative one; a character that is no digit, or an overflow, is an error.
RECURSIVE ParseDigits(_, _, _)
ParseDigits(digits, acc, is_positive) ==
    IF digits = <<>> THEN Ok(acc)
    ELSE IF ~IsDigit(Head(digits)) THEN Err
    ELSE IF acc > I32_MAX \div 10 \/ acc < -(I32_MAX \div 10) THEN Err
    ELSE LET mul == acc * 10
             d == ToDigit(Head(digits))
         IN  IF is_positive
             THEN IF mul > I32_MAX - d THEN Err
                  ELSE ParseDigits(Tail(digits), mul + d, is_positive)
             ELSE IF mul < I32_MIN + d THEN Err
                  ELSE ParseDigits(Tail(digits), mul - d, is_positive)

\* str::parse::<i32>(): an optional '+' or '-', then at least one digit.
ParseI32(src) ==
    IF src = <<>> THEN Err
    ELSE IF src = <<"+">> \/ src = <<"-">> THEN Err
    ELSE IF Head(src) = "+" THEN ParseDigits(Tail(src), 0, TRUE)
    ELSE IF Head(src) = "-" THEN ParseDigits(Tail(src), 0, FALSE)
    ELSE ParseDigits(src, 0, TRUE)

\* s.split(','): the pieces between the commas; always at least one piece.
RECURSIVE Split(_, _)
Split(s, piece) ==
    IF s = <<>> THEN <<piece>>
    ELSE IF Head(s) = "," THEN <<piece>> \o Split(Tail(s), <<>>)
    ELSE Split(Tail(s), Append(piece, Head(s)))

\* new with the two box dimensions taken in the wrong order.
new_swapped(x, y, width, height) ==
    [x |-> x, y |-> y, width |-> height, height |-> width, text |-> <<>>]

\* InterpretedLine::new
new(x, y, width, height) ==
    [x |-> x, y |-> y, width |-> width, height |-> height, text |-> <<>>]

\* The four parses of from_str, left to right, each with `?`.
ParseFields(x, y, width, height) ==
    LET px == ParseI32(x)
        py == ParseI32(y)
        pw == ParseI32(width)
        ph == ParseI32(height)
    IN  IF ~IsOk(px) THEN Err
        ELSE IF ~IsOk(py) THEN Err
        ELSE IF ~IsOk(pw) THEN Err
        ELSE IF ~IsOk(ph) THEN Err
        ELSE Ok(new(px.val, py.val, pw.val, ph.val))

\* from_str without the fifth `None` of the pattern: extra fields are ignored.
from_str_no_fifth(s) ==
    LET split_result == Split(s, <<>>)
    IN  IF Len(split_result) >= 4
        THEN ParseFields(split_result[1], split_result[2],
                         split_result[3], split_result[4])
        ELSE Err

\* <InterpretedLine as FromStr>::from_str: the first five results of the
\* split must be Some, Some, Some, Some, None.
from_str(s) ==
    LET split_result == Split(s, <<>>)
    IN  IF Len(split_result) = 4
        THEN ParseFields(split_result[1], split_result[2],
                         split_result[3], split_result[4])
        ELSE Err

(***************************************************************************)
(* Inputs of from_str: every string of at most MaxStrLen characters over a *)
(* small alphabet, and the strings of the documented examples and of the   *)
(* edges of i32.                                                           *)
(***************************************************************************)
BoxAlphabet == {"1", "2", ",", "-", "a"}

I32MaxStr == <<"2", "1", "4", "7", "4", "8", "3", "6", "4", "7">>

I32MaxPlus1Str == <<"2", "1", "4", "7", "4", "8", "3", "6", "4", "8">>

Comma == <<",">>

Box(x, y, width, height) == x \o Comma \o y \o Comma \o width \o Comma \o height

NotableBoxes ==
    { Box(<<"1", "0">>, <<"2", "0">>, <<"3", "0">>, <<"4", "0">>),
      Box(<<"1", "0">>, <<"2", "0">>, <<"3", "0">>, <<>>) ,
      <<"1", "0", ",", "2", "0", ",", "3", "0">>,
      Box(<<"1", "0">>, <<"2", "0">>, <<"3", "0">>, <<"4", "0">>) \o <<",", "5", "0">>,
      Box(<<"a">>, <<"2", "0">>, <<"3", "0">>, <<"4", "0">>),
      Box(<<"+", "1", "0">>, <<"-", "2", "0">>, <<"0", "0", "3">>, <<"-", "0">>),
      Box(<<" ", "1", "0">>, <<"2", "0">>, <<"3", "0">>, <<"4", "0">>),
      Box(<<"1", "0">>, <<"2", "0", " ">>, <<"3", "0">>, <<"4", "0">>),
      Box(I32MaxStr, <<"-">> \o I32MaxPlus1Str, <<"0">>, <<"0">>),
      Box(I32MaxPlus1Str, <<"0">>, <<"0">>, <<"0">>),
      Box(<<"0">>, <<"0">>, <<"-">> \o I32MaxStr \o <<"9">>, <<"0">>),
      Box(<<"0">>, <<"0">>, <<"0">>, <<"-", "2", "1", "4", "7", "4", "8", "3", "6", "4", "9">>),
      Box(<<"0">>, <<"3", "0", "0", "0", "0", "0", "0", "0", "0", "0">>, <<"0">>, <<"0">>) }

BoxStrings == (UNION { [1..n -> BoxAlphabet] : n \in 0..MaxStrLen }) \cup NotableBoxes

(***************************************************************************)
(* from_str as a state machine: the input is drawn, then parsed.           *)
(***************************************************************************)
\* Nothing computed yet.
Idle == [tag |-> "idle"]

\* No capture has returned yet.
NoCapture ==
    [status |-> "none", lines_seen |-> <<>>, interpreted_lines |-> <<>>,
     first_line_is_name |-> FALSE, output |-> <<>>]

\* UsageOptions as main sets them before the loop.
InitialOptions ==
    [playback_en |-> FALSE, playback_fi |-> FALSE, use_translation |-> TRUE,
     half_screen |-> FALSE, debug_printing |-> FALSE, color_correction |-> FALSE]

\* TranslationResponse with three empty strings.
NoTranslation == [en_translation |-> <<>>, fi_translation |-> <<>>, sv_translation |-> <<>>]

\* What has been observed of the command loop: whether the line is the
\* first one read, the options before the line was looked at, the capture
\* cycles run for the line, for each flag whether an odd number of the
\* lines processed so far held its letter, and whether the error of the
\* last cycle was printed.
NoHistory ==
    [first |-> TRUE, before |-> InitialOptions, cycles |-> 0,
     odd |-> [flag \in DOMAIN InitialOptions |-> FALSE], reported |-> FALSE]

\* main has built its clients and options and printed the first prompt.
InitMainVars ==
    /\ pc = "read"
    /\ main_line = <<>>
    /\ usage_options = InitialOptions
    /\ extracted_text = <<>>
    /\ languages = <<>>
    /\ translated_text = NoTranslation
    /\ output_audio = "none"
    /\ cycle_result = "none"
    /\ steps = <<>>
    /\ history = NoHistory

InitCommon ==
    /\ InitMainVars
    /\ status = "idle"
    /\ lines_seen = <<>>
    /\ notice = FALSE
    /\ interpreted_lines = <<>>
    /\ first_line_is_name = FALSE
    /\ output = <<>>
    /\ previous = NoCapture

InitParse ==
    /\ input \in BoxStrings
    /\ result = Idle
    /\ profile_overflow_checks = FALSE
    /\ InitCommon

ParseBoundingBox ==
    /\ result = Idle
    /\ result' = from_str(input)
    /\ UNCHANGED <<input, status, lines_seen, notice, interpreted_lines,
                   first_line_is_name, output, profile_overflow_checks, previous, main_vars>>

NextParse == ParseBoundingBox

SpecParse == InitParse /\ [][NextParse]_vars

(***************************************************************************)
(* Ordering and equality of InterpretedLine.                               *)
(***************************************************************************)
\* cmp that looks at x before y.
cmp_x_first(self, other) ==
    IF self.x > other.x THEN "Greater"
    ELSE IF self.x < other.x THEN "Less"
    ELSE IF self.y > other.y THEN "Greater"
    ELSE IF self.y < other.y THEN "Less"
    ELSE "Equal"

\* cmp that looks at y only.
cmp_y_only(self, other) ==
    IF self.y > other.y THEN "Greater"
    ELSE IF self.y < other.y THEN "Less"
    ELSE "Equal"

\* cmp that goes on to the width where y and x are equal.
cmp_then_width(self, other) ==
    IF self.y > other.y THEN "Greater"
    ELSE IF self.y < other.y THEN "Less"
    ELSE IF self.x > other.x THEN "Greater"
    ELSE IF self.x < other.x THEN "Less"
    ELSE IF self.width > other.width THEN "Greater"
    ELSE IF self.width < other.width THEN "Less"
    ELSE "Equal"

\* <InterpretedLine as Ord>::cmp
cmp(self, other) ==
    IF self.y > other.y THEN "Greater"
    ELSE IF self.y < other.y THEN "Less"
    ELSE IF self.x > other.x THEN "Greater"
    ELSE IF self.x < other.x THEN "Less"
    ELSE "Equal"

\* #[derive(PartialEq, Eq)]: the fields are compared one by one, all of them.
eq(self, other) ==
    /\ self.x = other.x
    /\ self.y = other.y
    /\ self.width = other.width
    /\ self.height = other.height
    /\ self.text = other.text

(***************************************************************************)
(* cmp and == as a state machine: three lines are drawn, then compared.    *)
(***************************************************************************)
MaxCoord == 1

Coords == {I32_MIN} \cup 0..MaxCoord

\* Lines that agree on (x, y) and differ in one of the other fields.
LineValues ==
    { [x |-> x, y |-> y, width |-> d[1], height |-> d[2], text |-> d[3]] :
        x \in Coords, y \in Coords,
        d \in { <<5, 7, <<>>>>, <<6, 7, <<>>>>, <<5, 8, <<>>>>, <<5, 7, <<"a">>>> } }

InitCmp ==
    /\ input \in LineValues \X LineValues \X LineValues
    /\ result = Idle
    /\ profile_overflow_checks = FALSE
    /\ InitCommon

Compare ==
    /\ result = Idle
    /\ result' = [tag |-> "cmp",
                  ab |-> cmp(input[1], input[2]),
                  ba |-> cmp(input[2], input[1]),
                  bc |-> cmp(input[2], input[3]),
                  ac |-> cmp(input[1], input[3]),
                  eq_ab |-> eq(input[1], input[2])]
    /\ UNCHANGED <<input, status, lines_seen, notice, interpreted_lines,
                   first_line_is_name, output, profile_overflow_checks, previous, main_vars>>

NextCmp == Compare

SpecCmp == InitCmp /\ [][NextCmp]_vars

(***************************************************************************)
(* AzureOcrClient::make_request: from the OCR response to the text.        *)
(*                                                                         *)
(* A JSON member that may be missing (or of another type) carries a has_   *)
(* flag: response.regions, region.lines, line.words, word.text.            *)
(***************************************************************************)
\* char::is_whitespace, for the characters the model uses.
WhiteSpace == {" ", "\t", "\n"}

RECURSIVE trim_start(_)
trim_start(s) ==
    IF s # <<>> /\ Head(s) \in WhiteSpace THEN trim_start(Tail(s)) ELSE s

RECURSIVE trim_end(_)
trim_end(s) ==
    IF s # <<>> /\ s[Len(s)] \in WhiteSpace
    THEN trim_end(SubSeq(s, 1, Len(s) - 1))
    ELSE s

\* trim that leaves the trailing whitespace.
trim_start_only(s) == trim_start(s)

\* str::trim
trim(s) == trim_end(trim_start(s))

\* |w| w["text"].as_str().unwrap_or("").trim().to_string()
WordText(w) == trim(IF w.has_text THEN w.text ELSE <<>>)

\* words.join("")
RECURSIVE join(_)
join(words) ==
    IF words = <<>> THEN <<>> ELSE Head(words) \o join(Tail(words))

\* line["words"].as_array().unwrap_or(&vec![]) ... .collect()
Words(line) ==
    LET array == IF line.has_words THEN line.words ELSE <<>>
    IN  [i \in 1..Len(array) |-> WordText(array[i])]

(***************************************************************************)
(* The detections of the OCR service the model draws from.                 *)
(***************************************************************************)
MaxLines == 3

I32MinStr == <<"-">> \o I32MaxPlus1Str

XFields == { I32MinStr, <<"0">>, <<"6", "0">>, <<"6", "1">> }

YFields == { <<"0">>, <<"1">> }

Word(text) == [has_text |-> TRUE, text |-> text]

NullWord == [has_text |-> FALSE, text |-> <<>>]

WordLists ==
    { [has_words |-> TRUE, words |-> <<Word(<<"a">>)>>],
      [has_words |-> TRUE, words |-> <<Word(<<" ", "b">>), NullWord>>] }

Detection(x, y, w) ==
    [boundingBox |-> Box(x, y, <<"5">>, <<"7">>),
     has_words |-> w.has_words, words |-> w.words]

NoWords == [has_words |-> FALSE, words |-> <<>>]

\* Detections with words at every position, two detections without a word
\* list, one with a three-field bounding box and one with a field that is
\* no integer.
Detections ==
    { Detection(x, y, w) : x \in XFields, y \in YFields, w \in WordLists }
    \cup { Detection(<<"6", "1">>, <<"0">>, NoWords),
           Detection(<<"0">>, <<"1">>, NoWords),
           [boundingBox |-> <<"0", ",", "0", ",", "5">>,
            has_words |-> TRUE, words |-> <<Word(<<"a">>)>>],
           [boundingBox |-> Box(<<"a">>, <<"0">>, <<"5">>, <<"7">>),
            has_words |-> TRUE, words |-> <<Word(<<"b">>)>>] }

\* Word tokens: empty, blank, padded on either side or both, with an inner
\* blank, padded with a tab and a newline, and without a text.
WordTokens ==
    { Word(<<>>), Word(<<" ">>), Word(<<"a">>), Word(<<"b">>), Word(<<" ", "a">>),
      Word(<<" ", "a", " ">>), Word(<<"a", " ", "b">>),
      Word(<<"\t", "b", "\n">>), NullWord }

MaxWords == 3

\* One detection at "0,0,5,7" with each list of at most MaxWords tokens.
WordDetections ==
    { Detection(<<"0">>, <<"0">>, [has_words |-> TRUE, words |-> ws]) :
        ws \in UNION { [1..n -> WordTokens] : n \in 0..MaxWords } }

MaxPairLines == 2

\* A detection with one word.
Sized(x, y, width, height, text) ==
    [boundingBox |-> Box(x, y, width, height),
     has_words |-> TRUE, words |-> <<Word(<<text>>)>>]

\* The detections of two captures that follow each other: a line to the
\* right above the others, lines that share (x, y) and differ in the text or
\* in the size of the box, and lines that share y only.
PairDetections ==
    { Sized(<<"6", "1">>, <<"0">>, <<"5">>, <<"7">>, "a"),
      Sized(<<"6", "1">>, <<"0">>, <<"6">>, <<"8">>, "a"),
      Sized(<<"0">>, <<"1">>, <<"5">>, <<"7">>, "b"),
      Sized(<<"0">>, <<"1">>, <<"6">>, <<"8">>, "b"),
      Sized(<<"0">>, <<"1">>, <<"5">>, <<"7">>, "a"),
      Sized(I32MinStr, <<"1">>, <<"5">>, <<"7">>, "c") }

(***************************************************************************)
(* The loops of make_request.                                              *)
(***************************************************************************)
\* The body of the inner loop: Err stands for the panic of unwrap().
InterpretLine(line) ==
    LET interpreted_line == from_str(line.boundingBox)
    IN  IF ~IsOk(interpreted_line) THEN Err
        ELSE Ok([interpreted_line.val EXCEPT !.text = @ \o join(Words(line))])

\* region["lines"].as_array().unwrap_or(&vec![])
Lines(region) == IF region.has_lines THEN region.lines ELSE <<>>

\* The lines the two nested loops visit, in order.
RECURSIVE VisitedLines(_)
VisitedLines(regions) ==
    IF regions = <<>> THEN <<>>
    ELSE Lines(Head(regions)) \o VisitedLines(Tail(regions))

\* The loop with a line that has no word list skipped.
RECURSIVE PushLines_skip_wordless(_, _)
PushLines_skip_wordless(lines, pushed) ==
    IF lines = <<>> THEN Ok(pushed)
    ELSE IF ~Head(lines).has_words
         THEN PushLines_skip_wordless(Tail(lines), pushed)
    ELSE LET interpreted_line == InterpretLine(Head(lines))
         IN  IF IsOk(interpreted_line)
             THEN PushLines_skip_wordless(Tail(lines), Append(pushed, interpreted_line.val))
             ELSE Err

\* The loop with a line whose bounding box does not parse left out.
RECURSIVE PushLines_skip_malformed(_, _)
PushLines_skip_malformed(lines, pushed) ==
    IF lines = <<>> THEN Ok(pushed)
    ELSE LET interpreted_line == InterpretLine(Head(lines))
         IN  IF IsOk(interpreted_line)
             THEN PushLines_skip_malformed(Tail(lines), Append(pushed, interpreted_line.val))
             ELSE PushLines_skip_malformed(Tail(lines), pushed)

\* InterpretLine of every detection of the model, as a table: a bounding
\* box is parsed once, not once per state.
InterpretedLine ==
    [line \in Detections \cup WordDetections \cup PairDetections |-> InterpretLine(line)]

\* interpreted_lines.push(interpreted_line) for every visited line.
RECURSIVE PushLines(_, _)
PushLines(lines, pushed) ==
    IF lines = <<>> THEN Ok(pushed)
    ELSE LET interpreted_line == InterpretedLine[Head(lines)]
         IN  IF IsOk(interpreted_line)
             THEN PushLines(Tail(lines), Append(pushed, interpreted_line.val))
             ELSE Err

\* The step with the comparison turned around: a descending sort.
RECURSIVE insert_descending(_, _)
insert_descending(sorted, e) ==
    IF sorted = <<>> THEN <<e>>
    ELSE IF cmp(e, sorted[Len(sorted)]) = "Greater"
         THEN Append(insert_descending(SubSeq(sorted, 1, Len(sorted) - 1), e),
                     sorted[Len(sorted)])
         ELSE Append(sorted, e)

\* The step of a sort that is not stable: e goes in front of its equals.
RECURSIVE insert_before_equal(_, _)
insert_before_equal(sorted, e) ==
    IF sorted = <<>> THEN <<e>>
    ELSE IF cmp(e, sorted[Len(sorted)]) # "Greater"
         THEN Append(insert_before_equal(SubSeq(sorted, 1, Len(sorted) - 1), e),
                     sorted[Len(sorted)])
         ELSE Append(sorted, e)

\* One step of a stable sort: e, the later element, goes behind every
\* element that is not greater than it.
RECURSIVE insert(_, _)
insert(sorted, e) ==
    IF sorted = <<>> THEN <<e>>
    ELSE IF cmp(e, sorted[Len(sorted)]) = "Less"
         THEN Append(insert(SubSeq(sorted, 1, Len(sorted) - 1), e), sorted[Len(sorted)])
         ELSE Append(sorted, e)

\* interpreted_lines.sort(): slice::sort is stable.
RECURSIVE sort(_)
sort(v) ==
    IF v = <<>> THEN <<>>
    ELSE insert(sort(SubSeq(v, 1, Len(v) - 1)), v[Len(v)])

\* The threshold of the name test.
NameOffset == 60

\* a - b leaves the i32 range.
Overflows(a, b) ==
    \/ b > 0 /\ a < I32_MIN + b
    \/ b < 0 /\ a > I32_MAX + b

\* a - b modulo 2^32, as i32 (a build without overflow checks).
wrapping_sub(a, b) ==
    IF b > 0 /\ a < I32_MIN + b THEN ((a + I32_MAX) + 1) + ((I32_MAX - b) + 1)
    ELSE IF b < 0 /\ a > I32_MAX + b THEN ((a - I32_MAX) - 1) + (-(b + I32_MAX) - 1)
    ELSE a - b

\* rest_of_the_lines.all(|line| first_line.x - line.x > 60): the lines are
\* tested in order up to the first that fails; a subtraction that overflows
\* panics in a build with overflow checks and wraps in one without.
RECURSIVE all(_, _, _)
all(first_line, rest_of_the_lines, overflow_checks) ==
    IF rest_of_the_lines = <<>> THEN "true"
    ELSE IF overflow_checks /\ Overflows(first_line.x, Head(rest_of_the_lines).x)
         THEN "panic"
    ELSE IF wrapping_sub(first_line.x, Head(rest_of_the_lines).x) > NameOffset
         THEN all(first_line, Tail(rest_of_the_lines), overflow_checks)
    ELSE "false"

\* The name test entered for a single line as well.
NameTest_from_one(lines, overflow_checks) ==
    IF Len(lines) > 0 THEN all(lines[1], Tail(lines), overflow_checks) ELSE "false"

\* The name test.
NameTest(lines, overflow_checks) ==
    IF Len(lines) > 1 THEN all(lines[1], Tail(lines), overflow_checks) ELSE "false"

\* .map(|line| line.text.as_str()).for_each(|line| output.push_str(line))
RECURSIVE push_all(_, _)
push_all(out, lines) ==
    IF lines = <<>> THEN out
    ELSE push_all(out \o Head(lines).text, Tail(lines))

\* The name branch without skip(1): the name is pushed again with the rest.
BuildOutput_no_skip(lines, is_name) ==
    IF is_name
    THEN push_all(lines[1].text \o <<":", " ">>, lines)
    ELSE push_all(<<>>, lines)

\* The other branch with a blank between the lines.
BuildOutput_blanks(lines, is_name) ==
    IF is_name
    THEN push_all(lines[1].text \o <<":", " ">>, Tail(lines))
    ELSE push_all(<<>>, [i \in 1..Len(lines) |->
                            [lines[i] EXCEPT !.text = IF i > 1 THEN <<" ">> \o @ ELSE @]])

\* The other branch with skip(1) as well: the first line is left out.
BuildOutput_skip_in_plain(lines, is_name) ==
    IF is_name
    THEN push_all(lines[1].text \o <<":", " ">>, Tail(lines))
    ELSE push_all(<<>>, IF lines = <<>> THEN lines ELSE Tail(lines))

\* The two branches that fill output.
BuildOutput(lines, is_name) ==
    IF is_name
    THEN push_all(lines[1].text \o <<":", " ">>, Tail(lines))
    ELSE push_all(<<>>, lines)

\* The process has panicked: nothing of the call is left.
Panicked ==
    /\ status' = "panicked"
    /\ interpreted_lines' = <<>>
    /\ first_line_is_name' = FALSE
    /\ output' = <<>>

\* A vector that still holds the lines of the capture before.
with_capacity_reused == previous.interpreted_lines

\* Vec::with_capacity(5), String::with_capacity(100): a new, empty
\* collection.
with_capacity == <<>>

\* make_request on a response the service sent. lines_seen records the
\* detections the loops visited. The build either checks the subtraction of
\* the name test for overflow (and panics) or lets it wrap: this is fixed
\* when the program is built (profile_overflow_checks).
make_request(response) ==
    /\ status = "idle"
    /\ \E visited \in { IF response.has_regions
                        THEN VisitedLines(response.regions) ELSE <<>> } :
       \E pushed \in { PushLines(visited, with_capacity) } :
           /\ lines_seen' = visited
           /\ notice' = ~response.has_regions
           /\ IF ~IsOk(pushed) THEN Panicked
              ELSE \E sorted \in { sort(pushed.val) } :
                   \E name \in { NameTest(sorted, profile_overflow_checks) } :
                       IF name = "panic" THEN Panicked
                       ELSE /\ status' = "ok"
                            /\ interpreted_lines' = sorted
                            /\ first_line_is_name' = (name = "true")
                            /\ output' = BuildOutput(sorted, name = "true")
    /\ UNCHANGED <<input, result, profile_overflow_checks, previous, main_vars>>

\* The request or the JSON decoding failed: `?` returns the error.
make_request_failed ==
    /\ status = "idle"
    /\ status' = "error"
    /\ UNCHANGED <<input, result, lines_seen, notice, interpreted_lines,
                   first_line_is_name, output, profile_overflow_checks, previous, main_vars>>

\* make_request has returned: its locals are dropped.
Return ==
    /\ status \in {"ok", "error"}
    /\ status' = "idle"
    /\ lines_seen' = <<>>
    /\ notice' = FALSE
    /\ interpreted_lines' = <<>>
    /\ first_line_is_name' = FALSE
    /\ output' = <<>>
    /\ UNCHANGED <<input, result, profile_overflow_checks, previous, main_vars>>

(***************************************************************************)
(* The responses of the OCR service the model draws from.                  *)
(***************************************************************************)
Region(lines) == [has_lines |-> TRUE, lines |-> lines]

\* The response that holds the detections l: without a regions array (only
\* for no detections), with all of them in one region, or with the first
\* of them in a region of its own behind a region without lines.
Response(l, shape) ==
    IF shape = "none" THEN [has_regions |-> FALSE, regions |-> <<>>]
    ELSE IF shape = "one" THEN [has_regions |-> TRUE, regions |-> <<Region(l)>>]
    ELSE [has_regions |-> TRUE,
          regions |-> IF l = <<>> THEN <<>>
                      ELSE << [has_lines |-> FALSE, lines |-> <<>>],
                              Region(SubSeq(l, 1, 1)),
                              Region(SubSeq(l, 2, Len(l))) >>]

Shapes(l) == IF l = <<>> THEN {"none", "one", "split"} ELSE {"one", "split"}

\* The program was built with or without overflow checks.
Init ==
    /\ input = <<>>
    /\ result = Idle
    /\ profile_overflow_checks \in BOOLEAN
    /\ InitCommon

\* A capture: the service answers with one of the responses.
Request ==
    /\ status = "idle"
    /\ \E n \in 0..MaxLines : \E l \in [1..n -> Detections] :
       \E shape \in Shapes(l) : make_request(Response(l, shape))

Next ==
    \/ Request
    \/ make_request_failed
    \/ Return

Spec == Init /\ [][Next]_vars

\* The same calls on the responses with one detection and its words.
RequestWords ==
    /\ status = "idle"
    /\ \E line \in WordDetections : make_request(Response(<<line>>, "one"))

NextWords ==
    \/ RequestWords
    \/ make_request_failed
    \/ Return

SpecWords == Init /\ [][NextWords]_vars

(***************************************************************************)
(* Two captures, one after the other: previous keeps what the capture      *)
(* before the current one was sent and what it returned.                   *)
(***************************************************************************)
\* Return, with the capture that returns kept in previous.
ReturnObserved ==
    /\ status \in {"ok", "error"}
    /\ previous' = [status |-> status, lines_seen |-> lines_seen,
                    interpreted_lines |-> interpreted_lines,
                    first_line_is_name |-> first_line_is_name,
                    output |-> output]
    /\ status' = "idle"
    /\ lines_seen' = <<>>
    /\ notice' = FALSE
    /\ interpreted_lines' = <<>>
    /\ first_line_is_name' = FALSE
    /\ output' = <<>>
    /\ UNCHANGED <<input, result, profile_overflow_checks, main_vars>>

RequestPair ==
    /\ status = "idle"
    /\ \E n \in 0..MaxPairLines : \E l \in [1..n -> PairDetections] :
       \E shape \in Shapes(l) : make_request(Response(l, shape))

NextPair ==
    \/ RequestPair
    \/ make_request_failed
    \/ ReturnObserved

SpecPair == Init /\ [][NextPair]_vars

(***************************************************************************)
(* main: the command loop (main.rs).                                       *)
(***************************************************************************)
ocr_vars == <<input, result, status, lines_seen, notice, interpreted_lines,
              first_line_is_name, output, profile_overflow_checks, previous>>

MaxLineLen == 1

LineAlphabet == {"q", "f", "e", "t", "h", "d", "c", "x"}

\* Lines with a 'q' beside a toggle letter, with a letter twice, and with
\* all six toggle letters.
NotableLines ==
    { <<"f", "q">>, <<"q", "f">>, <<"f", "f">>, <<"t", "e", "t">>,
      <<"x", "f", "x">>, <<"f", "e", "t", "h", "d", "c">> }

\* The lines the user may enter.
InputLines == (UNION { [1..n -> LineAlphabet] : n \in 0..MaxLineLen }) \cup NotableLines

\* str::contains for a pattern of one character.
contains(s, c) == \E i \in 1..Len(s) : s[i] = c

\* The loop goes on unless the line is exactly "q".
ContinueLoop_unless_equal(l) == l # <<"q">>

\* while !line.contains("q")
ContinueLoop(l) == ~contains(l, "q")

\* The letter of each flag.
Letter ==
    [playback_fi |-> "f", playback_en |-> "e", use_translation |-> "t",
     half_screen |-> "h", debug_printing |-> "d", color_correction |-> "c"]

\* The flag flipped once for every occurrence of its letter.
Flip_per_occurrence(options, l, flag) ==
    IF Cardinality({ i \in 1..Len(l) : l[i] = Letter[flag] }) % 2 = 1
    THEN ~options[flag] ELSE options[flag]

\* if line.contains(letter) { usage_options.flag = !usage_options.flag };
Flip(options, l, flag) ==
    IF contains(l, Letter[flag]) THEN ~options[flag] ELSE options[flag]

\* The six ifs at the head of the loop body.
Toggle(options, l) ==
    [playback_fi |-> Flip(options, l, "playback_fi"),
     playback_en |-> Flip(options, l, "playback_en"),
     use_translation |-> Flip(options, l, "use_translation"),
     half_screen |-> Flip(options, l, "half_screen"),
     debug_printing |-> Flip(options, l, "debug_printing"),
     color_correction |-> Flip(options, l, "color_correction")]

\* line = read!("{}\n"), before the loop and at the end of its body.
ReadLine ==
    /\ pc = "read"
    /\ \E l \in InputLines : main_line' = l
    /\ pc' = "while"
    /\ history' = [history EXCEPT !.first = (cycle_result = "none"),
                                  !.before = usage_options,
                                  !.cycles = 0]
    /\ UNCHANGED <<usage_options, extracted_text, languages, translated_text,
                   output_audio, cycle_result, steps>>
    /\ UNCHANGED ocr_vars

\* The loop condition fails: main returns.
Quit ==
    /\ pc = "while"
    /\ ~ContinueLoop(main_line)
    /\ pc' = "exited"
    /\ UNCHANGED <<main_line, usage_options, extracted_text, languages, translated_text,
                   output_audio, cycle_result, steps, history>>
    /\ UNCHANGED ocr_vars

\* The loop condition holds: the flags are toggled and
\* capture_process_playback is called.
LoopBody ==
    /\ pc = "while"
    /\ ContinueLoop(main_line)
    /\ usage_options' = Toggle(usage_options, main_line)
    /\ pc' = "capture"
    /\ cycle_result' = "running"
    /\ steps' = <<>>
    /\ history' = [history EXCEPT
                       !.cycles = @ + 1,
                       !.odd = [flag \in DOMAIN Letter |->
                                   @[flag] # contains(main_line, Letter[flag])]]
    /\ UNCHANGED <<main_line, extracted_text, languages, translated_text, output_audio>>
    /\ UNCHANGED ocr_vars

(***************************************************************************)
(* capture_process_playback, one step for each call it awaits. steps is    *)
(* the list of the calls the cycle has made so far, each with the outcome. *)
(***************************************************************************)
Japanese == "Japanese"

English == "English"

Finnish == "Finnish"

Swedish == "Swedish"

Event(op, language, ok) == [op |-> op, language |-> language, ok |-> ok]

\* The order with the translation awaited where its future is created.
Continue_translate_first(at) ==
    CASE at = "capture" -> "ocr"
      [] at = "ocr" -> "translate"
      [] at = "translate" -> "tts_ja"
      [] at = "tts_ja" -> "play_ja"
      [] at = "play_ja" -> "tts_en"
      [] at = "tts_en" -> "play_en"
      [] at = "play_en" -> "tts_fi"
      [] at = "tts_fi" -> "play_fi"
      [] at = "play_fi" -> "return"

\* The call that follows the call at a position of the function body.
Continue(at) ==
    CASE at = "capture" -> "ocr"
      [] at = "ocr" -> "tts_ja"
      [] at = "tts_ja" -> "play_ja"
      [] at = "play_ja" -> "translate"
      [] at = "translate" -> "tts_en"
      [] at = "tts_en" -> "play_en"
      [] at = "play_en" -> "tts_fi"
      [] at = "tts_fi" -> "play_fi"
      [] at = "play_fi" -> "return"

\* The call returned Ok: the function goes on.
Succeed(op, language) ==
    /\ steps' = Append(steps, Event(op, language, TRUE))
    /\ pc' = Continue(pc)
    /\ UNCHANGED cycle_result

\* The call returned Err: `?` returns it from capture_process_playback.
Fail(op, language) ==
    /\ steps' = Append(steps, Event(op, language, FALSE))
    /\ pc' = "match"
    /\ cycle_result' = "Err"

\* unwrap(), expect() or panic!: the process ends.
Panic ==
    /\ pc' = "panicked"
    /\ UNCHANGED <<steps, cycle_result>>

\* load_image_from_disk or camera.capture_image(half_screen, color_correction)
capture_image ==
    /\ pc = "capture"
    /\ \/ Succeed("capture", "-")
       \/ Fail("capture", "-")
       \/ Panic
    /\ UNCHANGED <<main_line, usage_options, extracted_text, languages, translated_text,
                   output_audio, history>>
    /\ UNCHANGED ocr_vars

\* The language list without a look at use_translation.
Languages_always(options) == <<English, Finnish, Swedish>>

\* languages: cleared without use_translation, else the three pushes.
Languages(options) ==
    IF options.use_translation THEN <<English, Finnish, Swedish>> ELSE <<>>

\* The texts the OCR service may extract.
Texts == { <<>>, <<"t">> }

\* google_ocr_client.make_request(..).await?, then the language list.
google_ocr ==
    /\ pc = "ocr"
    /\ \/ /\ \E text \in Texts : extracted_text' = text
          /\ languages' = Languages(usage_options)
          /\ Succeed("ocr", "-")
       \/ /\ Fail("ocr", "-")
          /\ UNCHANGED <<extracted_text, languages>>
    /\ UNCHANGED <<main_line, usage_options, translated_text, output_audio, history>>
    /\ UNCHANGED ocr_vars

\* text_to_speech_client.make_request(text, language).await?: the audio of
\* the answer is written to output_audio.mp3.
TextToSpeech(language) ==
    /\ \/ /\ output_audio' = language
          /\ Succeed("synthesize", language)
       \/ /\ Fail("synthesize", language)
          /\ UNCHANGED output_audio
       \/ /\ Panic
          /\ UNCHANGED output_audio
    /\ UNCHANGED <<main_line, usage_options, extracted_text, languages, translated_text,
                   history>>
    /\ UNCHANGED ocr_vars

\* audio_player.play_audio("output_audio.mp3").await?: plays what the file
\* holds; without the file File::open fails.
play_audio ==
    /\ \/ /\ output_audio # "none"
          /\ Succeed("play", output_audio)
       \/ Fail("play", output_audio)
    /\ UNCHANGED <<main_line, usage_options, extracted_text, languages, translated_text,
                   output_audio, history>>
    /\ UNCHANGED ocr_vars

tts_ja == pc = "tts_ja" /\ TextToSpeech(Japanese)

play_ja == pc = "play_ja" /\ play_audio

\* The translations the service may answer with.
Translations ==
    { [en_translation |-> en, fi_translation |-> fi, sv_translation |-> sv] :
        en \in { <<>>, <<"x">> }, fi \in { <<>>, <<"x">> }, sv \in { <<>>, <<"x">> } }

\* translated_text_future.await?: TranslatorClient::make_request returns the
\* empty response at once for an empty language list, else it sends the
\* request.
translate ==
    /\ pc = "translate"
    /\ IF languages = <<>>
       THEN /\ translated_text' = NoTranslation
            /\ pc' = Continue(pc)
            /\ UNCHANGED <<steps, cycle_result>>
       ELSE \/ /\ \E response \in Translations : translated_text' = response
               /\ Succeed("translate", "-")
            \/ /\ Fail("translate", "-")
               /\ UNCHANGED translated_text
    /\ UNCHANGED <<main_line, usage_options, extracted_text, languages, output_audio,
                   history>>
    /\ UNCHANGED ocr_vars

\* A translation is spoken whatever its playback flag.
ShouldSpeak_any(translation, playback) == translation # <<>>

\* !translation.is_empty() && usage_options.playback
ShouldSpeak(translation, playback) == translation # <<>> /\ playback

\* Neither the synthesis nor the playback of a translation is called.
Skip ==
    /\ pc' = Continue(Continue(pc))
    /\ UNCHANGED <<main_line, usage_options, extracted_text, languages, translated_text,
                   output_audio, cycle_result, steps, history>>
    /\ UNCHANGED ocr_vars

tts_en ==
    /\ pc = "tts_en"
    /\ IF ShouldSpeak(translated_text.en_translation, usage_options.playback_en)
       THEN TextToSpeech(English)
       ELSE Skip

play_en == pc = "play_en" /\ play_audio

tts_fi ==
    /\ pc = "tts_fi"
    /\ IF ShouldSpeak(translated_text.fi_translation, usage_options.playback_fi)
       THEN TextToSpeech(Finnish)
       ELSE Skip

play_fi == pc = "play_fi" /\ play_audio

\* The Swedish translation is printed; Ok(()).
ReturnOk ==
    /\ pc = "return"
    /\ pc' = "match"
    /\ cycle_result' = "Ok"
    /\ UNCHANGED <<main_line, usage_options, extracted_text, languages, translated_text,
                   output_audio, steps, history>>
    /\ UNCHANGED ocr_vars

\* The match with a loop that gives up after an error.
Match_exit_on_error ==
    /\ pc = "match"
    /\ history' = [history EXCEPT !.reported = (cycle_result = "Err")]
    /\ pc' = IF cycle_result = "Err" THEN "exited" ELSE "read"
    /\ extracted_text' = <<>>
    /\ languages' = <<>>
    /\ translated_text' = NoTranslation
    /\ steps' = <<>>
    /\ UNCHANGED <<main_line, usage_options, output_audio, cycle_result>>
    /\ UNCHANGED ocr_vars

\* match: Ok(_) => (), Err(e) => eprintln!; the locals of the cycle are
\* gone, and the prompt is printed.
Match ==
    /\ pc = "match"
    /\ history' = [history EXCEPT !.reported = (cycle_result = "Err")]
    /\ pc' = "read"
    /\ extracted_text' = <<>>
    /\ languages' = <<>>
    /\ translated_text' = NoTranslation
    /\ steps' = <<>>
    /\ UNCHANGED <<main_line, usage_options, output_audio, cycle_result>>
    /\ UNCHANGED ocr_vars

InitMain ==
    /\ input = <<>>
    /\ result = Idle
    /\ profile_overflow_checks = FALSE
    /\ InitCommon

NextMain ==
    \/ ReadLine
    \/ Quit
    \/ LoopBody
    \/ capture_image
    \/ google_ocr
    \/ tts_ja
    \/ play_ja
    \/ translate
    \/ tts_en
    \/ play_en
    \/ tts_fi
    \/ play_fi
    \/ ReturnOk
    \/ Match

SpecMain == InitMain /\ [][NextMain]_vars

(***************************************************************************)
(* CameraCapture::get_cropped_image: the rectangle of the half-screen crop. *)
(***************************************************************************)
\* i32 `/` for a positive divisor: the quotient, rounded toward zero.
div(a, b) == (a \div b) + (IF a < 0 /\ a % b # 0 THEN 1 ELSE 0)

\* Rect::new(x, y, width, height)
Rect(x, y, width, height) ==
    [tag |-> "Rect", x |-> x, y |-> y, width |-> width, height |-> height]

\* The rectangle with both halves rounded up.
crop_rect_rounded_up(self) ==
    Rect(0, div(self.height, 2) + (self.height % 2), self.width,
         div(self.height, 2) + (self.height % 2))

\* Rect::new(0, self.height / 2, self.width, self.height / 2)
crop_rect(self) == Rect(0, div(self.height, 2), self.width, div(self.height, 2))

MaxHeight == 12

\* Frame sizes: small ones of either sign, the size main asks for, and the
\* edges of i32.
Frames ==
    { [height |-> h, width |-> w] :
        h \in (-MaxHeight..MaxHeight) \cup {2160, I32_MAX - 1, I32_MAX, I32_MIN},
        w \in {0, 1, 3840, I32_MAX} }

InitCrop ==
    /\ input \in Frames
    /\ result = Idle
    /\ profile_overflow_checks = FALSE
    /\ InitCommon

get_cropped_image ==
    /\ result = Idle
    /\ result' = crop_rect(input)
    /\ UNCHANGED <<input, status, lines_seen, notice, interpreted_lines,
                   first_line_is_name, output, profile_overflow_checks, previous,
                   main_vars>>

NextCrop == get_cropped_image

SpecCrop == InitCrop /\ [][NextCrop]_vars

(***************************************************************************)
(* What a bounding-box string is, stated on the string itself: its fields  *)
(* are the stretches between consecutive commas, and a signed integer is   *)
(* an optional sign followed by decimal digits.                            *)
(***************************************************************************)
CommaPositions(s) == { i \in 1..Len(s) : s[i] = "," }

\* The k-th field, k in 1..(number of commas + 1).
Field(s, k) ==
    LET P == CommaPositions(s)
        Nth(n) == CHOOSE i \in P : Cardinality({ j \in P : j < i }) = n - 1
        from == IF k = 1 THEN 1 ELSE Nth(k - 1) + 1
        to == IF k = Cardinality(P) + 1 THEN Len(s) ELSE Nth(k) - 1
    IN  SubSeq(s, from, to)

Magnitude(tok) == IF tok # <<>> /\ tok[1] \in {"+", "-"} THEN Tail(tok) ELSE tok

IsSignedInteger(tok) ==
    /\ Magnitude(tok) # <<>>
    /\ \A i \in 1..Len(Magnitude(tok)) : \E d \in 0..9 : DigitChars[d + 1] = Magnitude(tok)[i]

RECURSIVE StripZeros(_)
StripZeros(digits) ==
    IF Len(digits) > 1 /\ Head(digits) = "0" THEN StripZeros(Tail(digits)) ELSE digits

\* digits <= limit for two digit strings without leading zeros.
RECURSIVE DigitsLeq(_, _)
DigitsLeq(digits, limit) ==
    IF Len(digits) # Len(limit) THEN Len(digits) < Len(limit)
    ELSE IF digits = <<>> THEN TRUE
    ELSE IF Head(digits) # Head(limit) THEN ToDigit(Head(digits)) < ToDigit(Head(limit))
    ELSE DigitsLeq(Tail(digits), Tail(limit))

\* The integer lies in [-2^31, 2^31 - 1].
InI32Range(tok) ==
    DigitsLeq(StripZeros(Magnitude(tok)),
              IF tok[1] = "-" THEN I32MaxPlus1Str ELSE I32MaxStr)

\* The integer a signed decimal numeral of the i32 range denotes.
RECURSIVE Positional(_, _)
Positional(digits, sign) ==
    IF digits = <<>> THEN 0
    ELSE sign * ToDigit(Head(digits)) * 10 ^ (Len(digits) - 1)
         + Positional(Tail(digits), sign)

Denotes(tok) ==
    Positional(StripZeros(Magnitude(tok)), IF tok[1] = "-" THEN -1 ELSE 1)

Parsed == result.tag # "idle"

FourFields(s) == Cardinality(CommaPositions(s)) = 3

\* C7: from_str fails on every string that does not consist of exactly four
\* comma-separated fields, and on every four-field string in which some
\* field, in whichever position, is not a signed integer.
C7_RejectsMalformed ==
    (Parsed /\ (~FourFields(input)
                \/ \E k \in 1..4 : ~IsSignedInteger(Field(input, k))))
        => result = Err

\* A four-field string whose first three fields are integers and whose last
\* field alone is not has been parsed.
C7_Witness ==
    /\ Parsed
    /\ result = Err
    /\ FourFields(input)
    /\ \A k \in 1..3 : IsSignedInteger(Field(input, k))
    /\ ~IsSignedInteger(Field(input, 4))
    /\ Field(input, 4) # <<>>

\* C8 as stated: every string of four signed integers parses successfully.
C8_AnyIntegerParses ==
    (Parsed /\ FourFields(input)
            /\ \A k \in 1..4 : IsSignedInteger(Field(input, k)))
        => IsOk(result)

\* C8 amended: every string of four signed integers of the i32 range
\* parses to the line with those x, y, width, height, in that order, and
\* an empty text.
C8_I32Parses ==
    (Parsed /\ FourFields(input)
            /\ \A k \in 1..4 : /\ IsSignedInteger(Field(input, k))
                                /\ InI32Range(Field(input, k)))
        => result = Ok([x |-> Denotes(Field(input, 1)),
                        y |-> Denotes(Field(input, 2)),
                        width |-> Denotes(Field(input, 3)),
                        height |-> Denotes(Field(input, 4)),
                        text |-> <<>>])

\* "10,20,30,40" has been parsed.
C8_Witness ==
    /\ input = Box(<<"1", "0">>, <<"2", "0">>, <<"3", "0">>, <<"4", "0">>)
    /\ IsOk(result)
    /\ result.val.x = 10 /\ result.val.y = 20
    /\ result.val.width = 30 /\ result.val.height = 40
    /\ result.val.text = <<>>

Compared == result.tag = "cmp"

Reverse(o) == IF o = "Less" THEN "Greater" ELSE IF o = "Greater" THEN "Less" ELSE "Equal"

\* C5: cmp(a, b) is decided by y ascending when the y differ, otherwise by x
\* ascending when the x differ, otherwise it is Equal; cmp(a, b) is the
\* reverse of cmp(b, a), the order is transitive, and it is Equal exactly
\* when a.x = b.x and a.y = b.y.
C5_TotalOrderOnYX ==
    Compared =>
        LET a == input[1]
            b == input[2]
        IN  /\ a.y < b.y => result.ab = "Less"
            /\ a.y > b.y => result.ab = "Greater"
            /\ (a.y = b.y /\ a.x < b.x) => result.ab = "Less"
            /\ (a.y = b.y /\ a.x > b.x) => result.ab = "Greater"
            /\ result.ab = "Equal" <=> (a.x = b.x /\ a.y = b.y)
            /\ result.ab = Reverse(result.ba)
            /\ (result.ab = "Less" /\ result.bc = "Less") => result.ac = "Less"
            /\ (result.ab = "Equal" /\ result.bc = "Equal") => result.ac = "Equal"
            /\ (result.ab # "Greater" /\ result.bc # "Greater") => result.ac # "Greater"

\* Two lines with a.x > b.x and a.y < b.y have been compared: y decides.
C5_Witness ==
    /\ Compared
    /\ input[1].x > input[2].x /\ input[1].y < input[2].y
    /\ result.ab = "Less" /\ result.ba = "Greater"
    /\ result.bc = "Less" /\ result.ac = "Less"

\* C6 as stated: a == b holds exactly when cmp(a, b) is Equal.
C6_EqIffCmpEqual ==
    Compared => (result.eq_ab <=> result.ab = "Equal")

(***************************************************************************)
(* make_request: what the claims say of its result.                        *)
(***************************************************************************)
Done == status = "ok"

\* The texts of lines[from..], one after the other.
RECURSIVE TextsFrom(_, _)
TextsFrom(lines, from) ==
    IF from > Len(lines) THEN <<>>
    ELSE lines[from].text \o TextsFrom(lines, from + 1)

\* a - b > NameOffset, over the integers.
OffsetExceeds(a, b) == b <= I32_MAX - NameOffset /\ a > b + NameOffset

\* Every line behind the first lies more than NameOffset to its left.
AllOffsetsExceed(lines) ==
    \A i \in 2..Len(lines) : OffsetExceeds(lines[1].x, lines[i].x)

\* Some difference first.x - line.x is no i32.
SomeOffsetOverflows(lines) ==
    \E i \in 2..Len(lines) : Overflows(lines[1].x, lines[i].x)

\* C1 as stated: the first sorted line is classified as a name label if and
\* only if there is more than one line and first.x - line.x > 60 for every
\* other line.
C1_NameIffOffsets ==
    Done => (first_line_is_name <=>
                (Len(interpreted_lines) > 1 /\ AllOffsetsExceed(interpreted_lines)))

\* C1 where no subtraction of the name test overflows (see C18).
C1_NameIffOffsetsInRange ==
    (Done /\ ~SomeOffsetOverflows(interpreted_lines)) =>
        (first_line_is_name <=>
            (Len(interpreted_lines) > 1 /\ AllOffsetsExceed(interpreted_lines)))

\* C2: when the first sorted line is a name label, the output is its text,
\* then ": ", then the texts of the remaining lines in sorted order with
\* nothing between them.
C2_NameOutput ==
    (Done /\ first_line_is_name) =>
        output = interpreted_lines[1].text \o <<":", " ">>
                     \o TextsFrom(interpreted_lines, 2)

\* A name label in front of two lines with different texts.
C2_Witness ==
    /\ Done /\ first_line_is_name
    /\ Len(interpreted_lines) = 3
    /\ interpreted_lines[1].text # <<>>
    /\ interpreted_lines[2].text # <<>>
    /\ interpreted_lines[3].text # <<>>
    /\ interpreted_lines[2].text # interpreted_lines[3].text
    /\ interpreted_lines[1].text # interpreted_lines[2].text

\* C3: when the first sorted line is no name label, the output is the texts
\* of all lines in sorted order, with no separator and no ": ".
C3_PlainOutput ==
    (Done /\ ~first_line_is_name) => output = TextsFrom(interpreted_lines, 1)

\* Three lines with texts, the first at an offset of exactly 60 from another.
C3_Witness ==
    /\ Done /\ ~first_line_is_name
    /\ Len(interpreted_lines) = 3
    /\ \A i \in 1..3 : interpreted_lines[i].text # <<>>
    /\ interpreted_lines[1].text # interpreted_lines[2].text
    /\ interpreted_lines[2].text # interpreted_lines[3].text
    /\ \E i \in 2..3 : /\ interpreted_lines[i].x = 0
                       /\ interpreted_lines[1].x = NameOffset

\* The list before the sort: the visited lines, interpreted, in order.
Unsorted == [i \in 1..Len(lines_seen) |-> InterpretedLine[lines_seen[i]].val]

Occurrences(seq, e) == Cardinality({ i \in 1..Len(seq) : seq[i] = e })

IsPermutation(a, b) ==
    /\ Len(a) = Len(b)
    /\ \A i \in 1..Len(a) : Occurrences(a, a[i]) = Occurrences(b, a[i])

\* C4: after the sort every adjacent pair (a, b) has a.y < b.y, or
\* a.y = b.y and a.x <= b.x, and the sorted list is a permutation of the
\* list before the sort.
C4_SortedPermutation ==
    Done =>
        /\ \A i \in 1..(Len(interpreted_lines) - 1) :
               LET a == interpreted_lines[i]
                   b == interpreted_lines[i + 1]
               IN  a.y < b.y \/ (a.y = b.y /\ a.x <= b.x)
        /\ IsPermutation(Unsorted, interpreted_lines)

\* Three lines arrived in an order the sort had to change, two of them with
\* the same y, and the line with the largest x is sorted first.
C4_Witness ==
    /\ Done
    /\ Len(interpreted_lines) = 3
    /\ Unsorted[1] = interpreted_lines[3]
    /\ Unsorted[3] = interpreted_lines[1]
    /\ interpreted_lines[2].y = interpreted_lines[3].y
    /\ interpreted_lines[2].x < interpreted_lines[3].x
    /\ interpreted_lines[1].x > interpreted_lines[3].x
    /\ interpreted_lines[1].y < interpreted_lines[2].y

(***************************************************************************)
(* The text of a line, stated on the word tokens.                          *)
(***************************************************************************)
TokenText(w) == IF w.has_text THEN w.text ELSE <<>>

\* A token without the whitespace before its first and after its last
\* character that is no whitespace.
Stripped(w) ==
    LET t == TokenText(w)
        solid == { i \in 1..Len(t) : t[i] \notin WhiteSpace }
    IN  IF solid = {} THEN <<>>
        ELSE SubSeq(t, CHOOSE i \in solid : \A j \in solid : i <= j,
                       CHOOSE i \in solid : \A j \in solid : i >= j)

\* The number of characters the tokens before the i-th contribute.
RECURSIVE Offset(_, _)
Offset(words, i) ==
    IF i = 1 THEN 0 ELSE Offset(words, i - 1) + Len(Stripped(words[i - 1]))

\* text is the stripped tokens, in order, with nothing between them.
IsJoinOf(text, words) ==
    /\ Len(text) = Offset(words, Len(words) + 1)
    /\ \A i \in 1..Len(words) : \A k \in 1..Len(Stripped(words[i])) :
           text[Offset(words, i) + k] = Stripped(words[i])[k]

\* C9: the text of a line is its word tokens, each without its leading and
\* trailing whitespace, concatenated in the order of the response with no
\* separator; a token that is empty after trimming, or has no text, adds
\* nothing.
C9_TextIsJoinedTokens ==
    (Done /\ Len(lines_seen) = 1) =>
        /\ Len(interpreted_lines) = 1
        /\ IsJoinOf(interpreted_lines[1].text,
                    IF lines_seen[1].has_words THEN lines_seen[1].words ELSE <<>>)

\* The tokens " a ", "b", "" have been joined to "ab".
C9_Witness ==
    /\ Done
    /\ Len(lines_seen) = 1
    /\ lines_seen[1].words = <<Word(<<" ", "a", " ">>), Word(<<"b">>), Word(<<>>)>>
    /\ interpreted_lines[1].text = <<"a", "b">>

\* What a well-formed bounding box says, read off the string.
BoxIsValid(box) ==
    /\ FourFields(box)
    /\ \A k \in 1..4 : IsSignedInteger(Field(box, k)) /\ InI32Range(Field(box, k))

\* The well-formed ones among the bounding boxes of the detections of the
\* model, found once.
ValidBoxes ==
    { box \in { l.boundingBox : l \in Detections \cup WordDetections \cup PairDetections } :
        BoxIsValid(box) }

WellFormed(box) == box \in ValidBoxes

\* The line of a detection without words: its box and an empty text.
WordlessLine(line) ==
    [x |-> Denotes(Field(line.boundingBox, 1)),
     y |-> Denotes(Field(line.boundingBox, 2)),
     width |-> Denotes(Field(line.boundingBox, 3)),
     height |-> Denotes(Field(line.boundingBox, 4)),
     text |-> <<>>]

\* C10: a detection with a valid bounding box and no word list is a line
\* with an empty text like any other: it is in the sorted list, as often as
\* it was sent, and it causes no failure: the call fails only for a
\* malformed bounding box or an overflowing subtraction of the name test.
C10_WordlessDetectionIsALine ==
    /\ Done =>
        /\ Len(interpreted_lines) = Len(lines_seen)
        /\ \A i \in 1..Len(lines_seen) :
               (~lines_seen[i].has_words /\ WellFormed(lines_seen[i].boundingBox)) =>
                   Occurrences(interpreted_lines, WordlessLine(lines_seen[i]))
                       >= Occurrences(lines_seen, lines_seen[i])
    /\ status = "panicked" =>
        \/ \E i \in 1..Len(lines_seen) : ~WellFormed(lines_seen[i].boundingBox)
        \/ \E i, j \in 1..Len(lines_seen) :
               Overflows(Denotes(Field(lines_seen[i].boundingBox, 1)),
                         Denotes(Field(lines_seen[j].boundingBox, 1)))

\* A detection without a word list was sorted first and taken for the name
\* label of a line with words.
C10_Witness ==
    /\ Done /\ first_line_is_name
    /\ Len(interpreted_lines) = 2
    /\ \E i \in 1..2 : /\ ~lines_seen[i].has_words
                       /\ interpreted_lines[1] = WordlessLine(lines_seen[i])
    /\ interpreted_lines[2].text # <<>>
    /\ output = <<":", " ">> \o interpreted_lines[2].text

(***************************************************************************)
(* Short lists, ties and malformed boxes.                                  *)
(***************************************************************************)
\* C11: a list of one detection never triggers the name test, whatever its
\* coordinates, and its output is exactly the text of that line; a list of
\* no detections gives the empty string.
C11_SingleAndEmpty ==
    /\ (Len(lines_seen) = 1 /\ WellFormed(lines_seen[1].boundingBox)) =>
           status # "panicked"
    /\ (Done /\ Len(lines_seen) = 1) =>
           /\ ~first_line_is_name
           /\ output = interpreted_lines[1].text
           /\ IsJoinOf(output, IF lines_seen[1].has_words
                               THEN lines_seen[1].words ELSE <<>>)
    /\ (Done /\ lines_seen = <<>>) => output = <<>>

\* A single line at x = 61 with a text has been reconstructed.
C11_Witness ==
    /\ Done
    /\ Len(lines_seen) = 1
    /\ interpreted_lines[1].x = NameOffset + 1
    /\ output = <<"b">>

SameXY(a, b) == a.x = b.x /\ a.y = b.y

\* The elements of seq at the position (x, y) of e, in the order of seq.
RECURSIVE AtPosition(_, _)
AtPosition(seq, e) ==
    IF seq = <<>> THEN <<>>
    ELSE (IF SameXY(Head(seq), e) THEN <<Head(seq)>> ELSE <<>>)
             \o AtPosition(Tail(seq), e)

\* C12: the sort is stable: the lines with the same y and the same x stand
\* in the sorted list in the order in which the response held them.
C12_StableSort ==
    Done => \A i \in 1..Len(Unsorted) :
                AtPosition(interpreted_lines, Unsorted[i]) = AtPosition(Unsorted, Unsorted[i])

\* Two lines at the same (x, y) with different texts arrived around a line
\* that sorts in front of both; they kept their order.
C12_Witness ==
    /\ Done
    /\ Len(lines_seen) = 3
    /\ SameXY(Unsorted[1], Unsorted[3])
    /\ Unsorted[1].text # Unsorted[3].text
    /\ Unsorted[2].y < Unsorted[1].y
    /\ interpreted_lines = <<Unsorted[2], Unsorted[1], Unsorted[3]>>

\* C13: when the bounding box of any detection of a capture is malformed,
\* the call produces no output string, however many well-formed detections
\* stand before or behind it.
C13_MalformedGivesNoOutput ==
    (\E i \in 1..Len(lines_seen) : ~WellFormed(lines_seen[i].boundingBox)) =>
        /\ ~Done
        /\ output = <<>>
        /\ interpreted_lines = <<>>

\* A malformed box between two well-formed ones.
C13_Witness ==
    /\ status = "panicked"
    /\ Len(lines_seen) = 3
    /\ WellFormed(lines_seen[1].boundingBox)
    /\ ~WellFormed(lines_seen[2].boundingBox)
    /\ WellFormed(lines_seen[3].boundingBox)
    /\ output = <<>>

AllBoxesValid == \A i \in 1..Len(lines_seen) : WellFormed(lines_seen[i].boundingBox)

\* C14 as stated: a bounding-box parse failure ends the capture with an
\* error result, which the command loop reports before it goes on to the
\* next capture.
C14_ParseFailureIsError ==
    (status # "idle" /\ ~AllBoxesValid) => status = "error"

(***************************************************************************)
(* The notice and the arithmetic of the name test.                         *)
(***************************************************************************)
\* C17 as stated: whenever the response yields no detection (no regions
\* member, an empty regions array, or regions without lines), the output is
\* the empty string and the notice "No text detected." is printed.
C17_EmptyListGivesNotice ==
    (Done /\ lines_seen = <<>>) => (output = <<>> /\ notice)

\* C18 as stated: for all x values from_str accepts, first.x - line.x of the
\* name test stays in the i32 range. The test always subtracts the x of the
\* second sorted line from the x of the first.
C18_SubtractionInRange ==
    (status \in {"ok", "panicked"} /\ Len(lines_seen) > 1 /\ AllBoxesValid) =>
        ~Overflows(sort(Unsorted)[1].x, sort(Unsorted)[2].x)

\* C19 as stated: a first line that is classified as a name label has a y
\* strictly smaller than the y of every other line.
C19_NameIsStrictlyAbove ==
    (Done /\ first_line_is_name) =>
        \A i \in 2..Len(interpreted_lines) :
            interpreted_lines[1].y < interpreted_lines[i].y

(***************************************************************************)
(* Two captures compared: the capture that returned last (previous) and    *)
(* the one the call has just answered.                                     *)
(***************************************************************************)
Returned == previous.status = "ok"

Answered == status \in {"ok", "panicked"}

BoxX(line) == Denotes(Field(line.boundingBox, 1))

BoxY(line) == Denotes(Field(line.boundingBox, 2))

PairwiseDistinctXY(lines) ==
    \A i, j \in 1..Len(lines) :
        i # j => (BoxX(lines[i]) # BoxX(lines[j]) \/ BoxY(lines[i]) # BoxY(lines[j]))

\* C15: two orderings of the same detections, whose (x, y) are pairwise
\* distinct, give the same output.
C15_OrderIndependent ==
    (Returned /\ Answered /\ IsPermutation(previous.lines_seen, lines_seen)
              /\ PairwiseDistinctXY(lines_seen)) =>
        (Done /\ output = previous.output)

\* Two detections with different texts were sent in one order, then in the
\* other.
C15_Witness ==
    /\ Returned /\ Done
    /\ Len(lines_seen) > 1
    /\ lines_seen # previous.lines_seen
    /\ IsPermutation(previous.lines_seen, lines_seen)
    /\ PairwiseDistinctXY(lines_seen)
    /\ interpreted_lines[1].text # interpreted_lines[2].text
    /\ output = previous.output

\* C16: the call keeps no state: the sorted list holds the lines of this
\* capture only, the output is made of their texts only, and the same
\* detections as in the capture before give the same output again.
C16_NoStateBetweenCalls ==
    /\ Done => /\ IsPermutation(Unsorted, interpreted_lines)
               /\ output = IF first_line_is_name
                           THEN interpreted_lines[1].text \o <<":", " ">>
                                    \o TextsFrom(interpreted_lines, 2)
                           ELSE TextsFrom(interpreted_lines, 1)
    /\ (Returned /\ Answered /\ lines_seen = previous.lines_seen) =>
           (Done /\ output = previous.output)

\* A capture with detections returned, and the next capture, which shares
\* no detection with it, gave another output.
C16_Witness ==
    /\ Returned /\ Done
    /\ previous.lines_seen # <<>>
    /\ lines_seen # <<>>
    /\ \A i \in 1..Len(lines_seen) : \A j \in 1..Len(previous.lines_seen) :
           lines_seen[i] # previous.lines_seen[j]
    /\ output # previous.output

\* The two lists agree in everything but the width and height of the boxes.
SameButSize(a, b) ==
    /\ Len(a) = Len(b)
    /\ \A i \in 1..Len(a) :
           /\ BoxX(a[i]) = BoxX(b[i])
           /\ BoxY(a[i]) = BoxY(b[i])
           /\ a[i].has_words = b[i].has_words
           /\ a[i].words = b[i].words

\* C20: two lists of detections that differ in nothing but the widths and
\* heights of their boxes give the same output.
C20_SizeDoesNotMatter ==
    (Returned /\ Answered /\ SameButSize(previous.lines_seen, lines_seen)) =>
        (Done /\ output = previous.output)

\* Two lines at the same (x, y) with different texts; the box of the first
\* had another size in the capture before.
C20_Witness ==
    /\ Returned /\ Done
    /\ Len(lines_seen) = 2
    /\ SameButSize(previous.lines_seen, lines_seen)
    /\ lines_seen[1].boundingBox # previous.lines_seen[1].boundingBox
    /\ BoxX(lines_seen[1]) = BoxX(lines_seen[2])
    /\ BoxY(lines_seen[1]) = BoxY(lines_seen[2])
    /\ interpreted_lines[1].text # interpreted_lines[2].text
    /\ output = previous.output

(***************************************************************************)
(* The length of the output.                                               *)
(***************************************************************************)
\* The sum of the lengths of the texts of lines.
RECURSIVE TextLength(_)
TextLength(lines) ==
    IF lines = <<>> THEN 0 ELSE Len(Head(lines).text) + TextLength(Tail(lines))

\* C21: the text of every detected line is in the output exactly once: the
\* length of the output is the sum of the lengths of the texts of all lines
\* of the response, plus 2 exactly when the first line is a name label.
C21_EveryTextOnce ==
    Done => Len(output) = TextLength(Unsorted) + (IF first_line_is_name THEN 2 ELSE 0)

\* A name label and two more lines, each with a text of one character.
C21_Witness ==
    /\ Done /\ first_line_is_name
    /\ Len(lines_seen) = 3
    /\ \A i \in 1..3 : Len(Unsorted[i].text) = 1
    /\ Len(output) = 5

(***************************************************************************)
(* The command loop: what the claims say of it.                            *)
(***************************************************************************)
ToggleLetters == {"f", "e", "t", "h", "d", "c"}

Flags == DOMAIN Letter

\* Each flag is the flag of before, flipped exactly if l holds its letter.
FlippedOnce(before, l, after) ==
    \A flag \in Flags :
        after[flag] = (before[flag] # (\E i \in 1..Len(l) : l[i] = Letter[flag]))

HasQ(l) == \E i \in 1..Len(l) : l[i] = "q"

\* C22: a line that holds a 'q' ends the loop at once: no flag is toggled
\* and no capture cycle is run for it, whatever other letters it holds, the
\* first line included.
C22_QuitEndsLoop ==
    HasQ(main_line) =>
        /\ pc \in {"while", "exited"}
        /\ usage_options = history.before
        /\ history.cycles = 0
        /\ steps = <<>>

\* The first line read was "fq": the loop has ended with the flags as main
\* set them.
C22_Witness ==
    /\ pc = "exited"
    /\ main_line = <<"f", "q">>
    /\ history.first
    /\ usage_options = InitialOptions
    /\ history.cycles = 0

\* C23: for a line without 'q', each of the letters f, e, t, h, d, c that
\* is in the line flips its flag once, however often it occurs, every other
\* flag is left alone, and so each flag is its initial value flipped once
\* for every processed line that held its letter.
C23_TogglesFlipOnce ==
    /\ history.cycles = 1 => FlippedOnce(history.before, main_line, usage_options)
    /\ \A flag \in Flags :
           usage_options[flag] = (InitialOptions[flag] # history.odd[flag])

\* After lines that turned playback_fi on, the line "tet" has flipped
\* use_translation and playback_en once each and left the others alone.
C23_Witness ==
    /\ history.cycles = 1
    /\ main_line = <<"t", "e", "t">>
    /\ history.before = [InitialOptions EXCEPT !.playback_fi = TRUE]
    /\ usage_options = [InitialOptions EXCEPT !.playback_fi = TRUE,
                                             !.use_translation = FALSE,
                                             !.playback_en = TRUE]

\* C24: every line without 'q' runs exactly one capture cycle, with the
\* toggles of the line applied; an error of the cycle is printed and the
\* next line is read with the flags as they were in the cycle; the loop
\* ends only on a line with 'q'.
C24_OneCyclePerLine ==
    /\ history.cycles <= 1
    /\ pc \notin {"read", "while", "exited"} =>
           /\ ~HasQ(main_line)
           /\ history.cycles = 1
           /\ FlippedOnce(history.before, main_line, usage_options)
    /\ (pc = "read" /\ cycle_result # "none") =>
           /\ cycle_result \in {"Ok", "Err"}
           /\ history.cycles = 1
           /\ history.reported <=> cycle_result = "Err"
           /\ FlippedOnce(history.before, main_line, usage_options)
    /\ (pc = "while" /\ ~history.first) => cycle_result \in {"Ok", "Err"}
    /\ pc = "exited" => HasQ(main_line)

\* The cycle of the line "f" has failed, the error is printed and the next
\* line is about to be read, with playback_fi still on.
C24_Witness ==
    /\ pc = "read"
    /\ cycle_result = "Err"
    /\ history.reported
    /\ main_line = <<"f">>
    /\ usage_options.playback_fi
    /\ history.cycles = 1

(***************************************************************************)
(* The capture cycle: what the claims say of it.                           *)
(***************************************************************************)
Made(op, language) == \E i \in 1..Len(steps) : steps[i] = Event(op, language, TRUE)

Called(op, language) ==
    \E i \in 1..Len(steps) : steps[i].op = op /\ steps[i].language = language

\* The cycle is past the point where it obtains the translation.
PastTranslation ==
    \/ pc \in {"tts_en", "play_en", "tts_fi", "play_fi", "return"}
    \/ pc = "match" /\ cycle_result = "Ok"

\* C25: without use_translation the language list is empty, the translator
\* answers with three empty translations without a request, and neither
\* English nor Finnish is synthesized or played, whatever the playback
\* flags; with use_translation the list is English, Finnish, Swedish.
C25_TranslationSwitch ==
    Made("ocr", "-") =>
        IF usage_options.use_translation
        THEN languages = <<"English", "Finnish", "Swedish">>
        ELSE /\ languages = <<>>
             /\ ~Called("translate", "-")
             /\ PastTranslation => translated_text = NoTranslation
             /\ \A language \in {"English", "Finnish"} :
                    ~Called("synthesize", language) /\ ~Called("play", language)

\* A cycle without use_translation and with both playback flags has
\* returned Ok after the Japanese playback.
C25_Witness ==
    /\ pc = "match" /\ cycle_result = "Ok"
    /\ ~usage_options.use_translation
    /\ usage_options.playback_en /\ usage_options.playback_fi
    /\ Len(steps) = 4
    /\ steps[4] = Event("play", "Japanese", TRUE)

\* The place of a call in the order of the claim; 0 for any other call.
StepRank(e) ==
    IF e.op = "capture" THEN 1
    ELSE IF e.op = "ocr" THEN 2
    ELSE IF e.op = "synthesize" /\ e.language = "Japanese" THEN 3
    ELSE IF e.op = "play" /\ e.language = "Japanese" THEN 4
    ELSE IF e.op = "translate" THEN 5
    ELSE IF e.op = "synthesize" /\ e.language = "English" THEN 6
    ELSE IF e.op = "play" /\ e.language = "English" THEN 7
    ELSE IF e.op = "synthesize" /\ e.language = "Finnish" THEN 8
    ELSE IF e.op = "play" /\ e.language = "Finnish" THEN 9
    ELSE 0

\* C26: the calls of a cycle are made in the order OCR, Japanese synthesis,
\* Japanese playback, translation, English synthesis and playback, Finnish
\* synthesis and playback; the call right before a playback is the
\* synthesis that wrote the audio it plays; a failed call is the last.
C26_StepsInOrder ==
    /\ \A i \in 1..Len(steps) : StepRank(steps[i]) > 0
    /\ \A i, j \in 1..Len(steps) : i < j => StepRank(steps[i]) < StepRank(steps[j])
    /\ \A i \in 1..Len(steps) : i <= 4 => StepRank(steps[i]) = i
    /\ \A i \in 1..Len(steps) :
           StepRank(steps[i]) > 5 => Made("translate", "-")
    /\ \A i \in 1..Len(steps) :
           steps[i].op = "play" =>
               /\ i > 1
               /\ steps[i - 1] = Event("synthesize", steps[i].language, TRUE)
    /\ \A i \in 1..Len(steps) :
           ~steps[i].ok => (i = Len(steps) /\ pc = "match" /\ cycle_result = "Err")

\* A cycle with all nine calls has returned Ok.
C26_Witness ==
    /\ pc = "match" /\ cycle_result = "Ok"
    /\ Len(steps) = 9
    /\ steps[5] = Event("translate", "-", TRUE)
    /\ steps[9] = Event("play", "Finnish", TRUE)

\* The language was synthesized and then played.
Spoken(language) ==
    \E i \in 1..(Len(steps) - 1) :
        /\ steps[i] = Event("synthesize", language, TRUE)
        /\ steps[i + 1] = Event("play", language, TRUE)

\* C27: a cycle synthesizes and plays the Japanese text always, English
\* exactly if the English translation is not empty and playback_en is
\* set, Finnish exactly if the Finnish translation is not empty and
\* playback_fi is set, and Swedish never.
C27_WhatIsSpoken ==
    /\ ~Called("synthesize", "Swedish") /\ ~Called("play", "Swedish")
    /\ Called("synthesize", "English") =>
           (translated_text.en_translation # <<>> /\ usage_options.playback_en)
    /\ Called("synthesize", "Finnish") =>
           (translated_text.fi_translation # <<>> /\ usage_options.playback_fi)
    /\ (pc = "match" /\ cycle_result = "Ok") =>
           /\ Spoken("Japanese")
           /\ Spoken("English") <=>
                  (translated_text.en_translation # <<>> /\ usage_options.playback_en)
           /\ Spoken("Finnish") <=>
                  (translated_text.fi_translation # <<>> /\ usage_options.playback_fi)

\* All three translations came back; playback_fi is set and playback_en is
\* not: Japanese and Finnish were spoken, English and Swedish were not.
C27_Witness ==
    /\ pc = "match" /\ cycle_result = "Ok"
    /\ translated_text.en_translation # <<>>
    /\ translated_text.fi_translation # <<>>
    /\ translated_text.sv_translation # <<>>
    /\ usage_options.playback_fi /\ ~usage_options.playback_en
    /\ Spoken("Japanese") /\ Spoken("Finnish") /\ ~Spoken("English")

(***************************************************************************)
(* The half-screen crop.                                                   *)
(***************************************************************************)
Cropped == result.tag = "Rect"

\* q is the half of h, rounded down: 2q <= h <= 2q + 1.
IsHalf(q, h) == h - q - q \in {0, 1}

\* C28: the crop rectangle is (0, height / 2, width, height / 2) with
\* integer division, so for every frame height >= 0, odd or even, it starts
\* inside the frame and y plus its height does not exceed the frame height.
C28_CropInsideFrame ==
    (Cropped /\ input.height >= 0) =>
        /\ result.x = 0
        /\ result.width = input.width
        /\ IsHalf(result.y, input.height)
        /\ result.height = result.y
        /\ result.y >= 0
        /\ result.height <= input.height - result.y

\* A frame of height 7 has been cropped to the rows from 3, 3 rows high.
C28_Witness ==
    /\ Cropped
    /\ input.height = 7
    /\ result.y = 3
    /\ result.height = 3
    /\ result.width = input.width

====
